---- MODULE Spec2Model ----
(***************************************************************************)
(* Model of src/messages.go: the wire-message codec and signer of the      *)
(* kernel (WireMsgToComposedMsg, ComposedMsg.ToWireMsg,                    *)
(* MsgReceipt.SendResponse, NewMsg).                                       *)
(*                                                                         *)
(* Representation.  A frame ([]byte) is a sequence of symbols; a symbol is *)
(* a record [c, b]: c = "lit" is a literal byte run with text b (the       *)
(* delimiter token, a JSON text, a routing token, a stray byte), and       *)
(* c in {"hi","lo","HI","LO"} is the hex digit (lower or upper case) of    *)
(* the high or low nibble of byte b.  Frame equality, concatenation,       *)
(* length and pairwise hex decoding are computed on these sequences.       *)
(* A Go value held in an interface{} (or a map[string]interface{}) is a    *)
(* record [ty, js]: its dynamic type and the JSON text json.Marshal emits  *)
(* for it.  HMAC-SHA256 is the ideal keyed digest: MacSize symbolic bytes  *)
(* that determine (key, data) and are never the zero byte.                 *)
(***************************************************************************)
EXTENDS Integers, Sequences, FiniteSets, TLC

VARIABLES
    key,        \* receipt.Sockets.Key / signkey: "" is the empty key
    proc,       \* "running" | "panicked" (runtime panic) | "exited" (log.Fatalln)
    op,         \* the operation that ran last
    inParts,    \* msgparts given to the last WireMsgToComposedMsg call
    inSpare,    \* elements of msgparts' backing array beyond its length
    inSigned,   \* the five frames as the sending peer produced them
    dec,        \* what that call returned
    receipt,    \* the MsgReceipt formed from a successful decode
    encSrc,     \* the ComposedMsg given to the last direct ToWireMsg call
    enc,        \* what that call returned
    reply,      \* the ComposedMsg returned by the last NewMsg call
    newArgs,    \* the arguments of the last NewMsg call
    sentMsg,    \* the ComposedMsg given to the last SendResponse call
    wire,       \* frames handed to the socket by the last SendResponse call
    drawn       \* the UUIDs generated so far, oldest first

vars == <<key, proc, op, inParts, inSpare, inSigned, dec, receipt, encSrc, enc,
          reply, newArgs, sentMsg, wire, drawn>>

----------------------------------------------------------------------------
(* Bounds of the model *)

MacSize == 2       \* bytes of a digest (scaled: sha256 has 32)
MaxIds == 2        \* identity frames in front of the delimiter
MaxSpare == 4      \* spare capacity of msgparts' backing array
MaxReplies == 2    \* NewMsg calls per receipt
NumUUIDs == 3      \* size of the UUID space

----------------------------------------------------------------------------
(* Frames *)

Lit(s) == [c |-> "lit", b |-> s]

EmptyFrame == <<>>

DelimiterFrame == <<Lit("<IDS|MSG>")>>

RECURSIVE Concat(_)
Concat(frames) ==
    IF frames = <<>> THEN <<>> ELSE Head(frames) \o Concat(Tail(frames))

----------------------------------------------------------------------------
(* crypto/hmac, crypto/sha256 *)

ZeroByte == "00"

\* mac.Write(p1); ...; mac.Sum(nil): the digest of the concatenated writes.
Sum(signkey, data) == [j \in 1..MacSize |-> ToString(<<j, signkey, data>>)]

\* hmac.Equal: false when the lengths differ, else a comparison of the bytes.
Equal(mac1, mac2) == Len(mac1) = Len(mac2) /\ mac1 = mac2

----------------------------------------------------------------------------
(* encoding/hex *)

EncodedLen(n) == 2 * n

DecodedLen(n) == n \div 2

\* hex.Encode: two lower-case digits per byte, high nibble first.
HexEncode(bytes) ==
    [i \in 1..EncodedLen(Len(bytes)) |->
        IF i % 2 = 1 THEN [c |-> "hi", b |-> bytes[(i + 1) \div 2]]
                     ELSE [c |-> "lo", b |-> bytes[i \div 2]]]

\* fromHexChar: digits of either case are accepted, anything else is not.
FromHexChar(sym) ==
    IF sym.c \in {"hi", "HI"} THEN [ok |-> TRUE, half |-> "hi", b |-> sym.b]
    ELSE IF sym.c \in {"lo", "LO"} THEN [ok |-> TRUE, half |-> "lo", b |-> sym.b]
    ELSE [ok |-> FALSE, half |-> "", b |-> ""]

\* (a << 4) | b of two decoded digits
PackByte(p, q) ==
    IF p.half = "hi" /\ q.half = "lo" /\ p.b = q.b
    THEN p.b
    ELSE ToString(<<p.half, p.b, q.half, q.b>>)

\* the number of leading digit pairs hex.Decode converts before it stops
RECURSIVE DecodedPairs(_, _)
DecodedPairs(src, n) ==
    IF 2 * n + 2 > Len(src) THEN n
    ELSE IF FromHexChar(src[2 * n + 1]).ok /\ FromHexChar(src[2 * n + 2]).ok
         THEN DecodedPairs(src, n + 1)
         ELSE n

\* hex.Decode(dst, src) with its error ignored: dst keeps its bytes from the
\* first bad digit on; an unpaired last character is reported after the pairs
\* before it were decoded.
HexDecode(dst, src) ==
    LET n == DecodedPairs(src, 0)
    IN  [i \in 1..Len(dst) |->
            IF i <= n
            THEN PackByte(FromHexChar(src[2 * i - 1]), FromHexChar(src[2 * i]))
            ELSE dst[i]]

\* make([]byte, n)
MakeBytes(n) == [i \in 1..n |-> ZeroByte]

----------------------------------------------------------------------------
(* Go values and encoding/json *)

MapType == "map[string]interface {}"

\* the nil interface{} value
NilValue == [ty |-> "nil", js |-> "null"]

\* a nil map[string]interface{}
NilMap == [ty |-> "map[string]interface {} (nil)", js |-> "null"]

\* make(map[string]interface{})
EmptyMap == [ty |-> MapType, js |-> "{}"]

\* dynamic types json.Marshal returns an UnsupportedTypeError for
UnsupportedTypes == {"chan int", "map[string]interface {} holding a chan"}

\* a Go string with a byte that is not valid UTF-8, and the same string with
\* that byte replaced by U+FFFD
InvalidUTF8 == "bob<0xFF>"

ReplacedUTF8 == "bob<U+FFFD>"

\* json.Marshal writes an invalid byte of a string as the escape of U+FFFD
ToValidUTF8(s) == IF s = InvalidUTF8 THEN ReplacedUTF8 ELSE s

UUIDString(u) == "uuid-" \o ToString(u)

MsgIDStrings == {"", "req-1"} \cup {UUIDString(u) : u \in 1..NumUUIDs}

UsernameStrings == {"", "alice", InvalidUTF8, ReplacedUTF8}

SessionStrings == {"", "sess-1"}

MsgTypeStrings == {"", "execute_request", "execute_reply", "status"}

\* type MsgHeader struct
MsgHeader ==
    [MsgID : MsgIDStrings, Username : UsernameStrings,
     Session : SessionStrings, MsgType : MsgTypeStrings]

EmptyHeader == [MsgID |-> "", Username |-> "", Session |-> "", MsgType |-> ""]

\* the zero ComposedMsg (var msg ComposedMsg)
ZeroMsg ==
    [Header |-> EmptyHeader, ParentHeader |-> EmptyHeader,
     Metadata |-> NilMap, Content |-> NilValue]

\* the JSON text of a MsgHeader, by its struct tags
HeaderText(h) ==
    "{\"msg_id\":\"" \o ToValidUTF8(h.MsgID)
        \o "\",\"username\":\"" \o ToValidUTF8(h.Username)
        \o "\",\"session\":\"" \o ToValidUTF8(h.Session)
        \o "\",\"msg_type\":\"" \o ToValidUTF8(h.MsgType) \o "\"}"

\* headers json.Unmarshal can produce: their strings are valid UTF-8
DecodedHeaders == {h \in MsgHeader : h.Username # InvalidUTF8}

HeaderTexts == {HeaderText(h) : h \in DecodedHeaders}

\* a JSON object whose msg_id is a number and whose username is a string
PartialHeaderText == "{\"msg_id\":1,\"username\":\"alice\"}"

ObjectTexts ==
    {"{}", "{\"k\":\"v\"}", "{\"x\":1}", "{\"n\":1}", PartialHeaderText}
        \cup HeaderTexts

NumberTexts == {"1"}

\* the text of a frame; "" (not JSON) for a frame that is no single literal
FrameText(frame) ==
    IF Len(frame) = 1 /\ frame[1].c = "lit" THEN frame[1].b ELSE ""

\* what the JSON scanner makes of a text
JSONKind(text) ==
    IF text = "null" THEN "null"
    ELSE IF text \in NumberTexts THEN "number"
    ELSE IF text \in ObjectTexts THEN "object"
    ELSE "invalid"

\* json.Marshal(v) of a value held in an interface{} or a map
JSONMarshal(v) ==
    IF v.ty \in UnsupportedTypes
    THEN [out |-> EmptyFrame, err |-> TRUE]
    ELSE [out |-> <<Lit(v.js)>>, err |-> FALSE]

\* json.Marshal(h) of a MsgHeader: strings always marshal
JSONMarshalHeader(h) == [out |-> <<Lit(HeaderText(h))>>, err |-> FALSE]

\* json.Unmarshal(frame, &h), h a MsgHeader holding old
JSONUnmarshalHeader(frame, old) ==
    LET text == FrameText(frame)
        kind == JSONKind(text)
    IN  IF kind = "invalid" THEN [val |-> old, err |-> TRUE]
        ELSE IF kind = "null" THEN [val |-> old, err |-> FALSE]
        ELSE IF kind = "number" THEN [val |-> old, err |-> TRUE]
        ELSE IF text \in HeaderTexts
             THEN [val |-> CHOOSE h \in DecodedHeaders : HeaderText(h) = text,
                   err |-> FALSE]
        ELSE IF text = PartialHeaderText
             THEN [val |-> [old EXCEPT !.Username = "alice"], err |-> TRUE]
        ELSE [val |-> old, err |-> FALSE]

\* json.Unmarshal(frame, &m), m a map[string]interface{} holding old (nil)
JSONUnmarshalMap(frame, old) ==
    LET text == FrameText(frame)
        kind == JSONKind(text)
    IN  IF kind = "invalid" THEN [val |-> old, err |-> TRUE]
        ELSE IF kind = "null" THEN [val |-> NilMap, err |-> FALSE]
        ELSE IF kind = "number" THEN [val |-> old, err |-> TRUE]
        ELSE [val |-> [ty |-> MapType, js |-> text], err |-> FALSE]

\* json.Unmarshal(frame, &v), v an interface{} holding old
JSONUnmarshalInterface(frame, old) ==
    LET text == FrameText(frame)
        kind == JSONKind(text)
    IN  IF kind = "invalid" THEN [val |-> old, err |-> TRUE]
        ELSE IF kind = "null" THEN [val |-> NilValue, err |-> FALSE]
        ELSE IF kind = "number"
             THEN [val |-> [ty |-> "float64", js |-> text], err |-> FALSE]
        ELSE [val |-> [ty |-> MapType, js |-> text], err |-> FALSE]

----------------------------------------------------------------------------
(* WireMsgToComposedMsg *)

\* for string(msgparts[i]) != "<IDS|MSG>" { i++ }: the index (from 0) of the
\* first delimiter frame, or -1 when msgparts[i] is indexed past the end
RECURSIVE ScanDelimiter(_, _)
ScanDelimiter(msgparts, i) ==
    IF i >= Len(msgparts) THEN -1
    ELSE IF msgparts[i + 1] = DelimiterFrame THEN i
    ELSE ScanDelimiter(msgparts, i + 1)

\* faulty variant: the slice runs through the delimiter frame
IdentitiesThroughDelimiter(msgparts, i) == SubSeq(msgparts, 1, i + 1)

\* identities := msgparts[:i]
IdentitiesOf(msgparts, i) == SubSeq(msgparts, 1, i)

\* faulty variant: the test of the key is inverted
MustVerifyInverted(signkey) == signkey = ""

\* faulty variant: the signature is verified whatever the key
AlwaysVerify(signkey) == TRUE

\* len(signkey) != 0
MustVerify(signkey) == signkey # ""

\* msgparts[i+2 : i+6], a slice of the backing array
SignedRegion(backing, i) == SubSeq(backing, i + 3, i + 6)

\* signature := make(...); hex.Decode(signature, msgparts[i+1])
SignatureOf(frame) == HexDecode(MakeBytes(DecodedLen(Len(frame))), frame)

Panicked == [status |-> "panic", msg |-> ZeroMsg, identities |-> <<>>, idsNil |-> TRUE]

\* return msg, nil, &InvalidSignatureError{}
Rejected(msg) ==
    [status |-> "InvalidSignature", msg |-> msg, identities |-> <<>>, idsNil |-> TRUE]

\* the four json.Unmarshal calls, their errors dropped, and the return
UnmarshalFields(msgparts, i, identities) ==
    [status |-> "ok",
     msg |-> [Header |-> JSONUnmarshalHeader(msgparts[i + 3], EmptyHeader).val,
              ParentHeader |-> JSONUnmarshalHeader(msgparts[i + 4], EmptyHeader).val,
              Metadata |-> JSONUnmarshalMap(msgparts[i + 5], NilMap).val,
              Content |-> JSONUnmarshalInterface(msgparts[i + 6], NilValue).val],
     identities |-> identities,
     idsNil |-> FALSE]

\* msgparts is the slice given; backing is its backing array up to its
\* capacity (msgparts followed by the spare elements).  An index past
\* len(msgparts) or a slice bound past cap(msgparts) is a runtime panic.
WireMsgToComposedMsg(msgparts, backing, signkey) ==
    LET i == ScanDelimiter(msgparts, 0)
        identities == IdentitiesOf(msgparts, i)
    IN  IF i < 0 THEN Panicked
        ELSE IF MustVerify(signkey) /\ i + 6 > Len(backing) THEN Panicked
        ELSE IF MustVerify(signkey) /\ i + 1 >= Len(msgparts) THEN Panicked
        ELSE IF MustVerify(signkey)
                /\ ~Equal(Sum(signkey, Concat(SignedRegion(backing, i))),
                          SignatureOf(msgparts[i + 2]))
             THEN Rejected(ZeroMsg)
        ELSE IF i + 5 >= Len(msgparts) THEN Panicked
        ELSE UnmarshalFields(msgparts, i, identities)

----------------------------------------------------------------------------
(* ComposedMsg.ToWireMsg *)

\* msgparts := make([][]byte, 5)
NilParts == <<EmptyFrame, EmptyFrame, EmptyFrame, EmptyFrame, EmptyFrame>>

\* if msg.Metadata == nil { msg.Metadata = make(map[string]interface{}) }
MetadataToEncode(metadata) == IF metadata = NilMap THEN EmptyMap ELSE metadata

\* the signature slot: the lower-case hex of the MAC over msgparts[1:], or
\* the nil frame when the key is empty
SignParts(body, signkey) ==
    IF signkey # "" THEN HexEncode(Sum(signkey, Concat(body))) ELSE EmptyFrame

\* faulty variant: header and parent header in each other's slot
AssembleSwapped(signature, header, parentHeader, metadata, content) ==
    <<signature, parentHeader, header, metadata, content>>

\* the five frames in their slots
Assemble(signature, header, parentHeader, metadata, content) ==
    <<signature, header, parentHeader, metadata, content>>

ToWireMsg(msg, signkey) ==
    LET header == JSONMarshalHeader(msg.Header)
        parentHeader == JSONMarshalHeader(msg.ParentHeader)
        metadata == JSONMarshal(MetadataToEncode(msg.Metadata))
        content == JSONMarshal(msg.Content)
    IN  IF header.err
        THEN [parts |-> NilParts, err |-> "Could not marshal message header"]
        ELSE IF parentHeader.err
        THEN [parts |-> [NilParts EXCEPT ![2] = header.out],
              err |-> "Could not marshal parent header"]
        ELSE IF metadata.err
        THEN [parts |-> [NilParts EXCEPT ![2] = header.out, ![3] = parentHeader.out],
              err |-> "Could not marshal metadata"]
        ELSE IF content.err
        THEN [parts |-> [NilParts EXCEPT ![2] = header.out, ![3] = parentHeader.out,
                                         ![4] = metadata.out],
              err |-> "Could not marshal content"]
        ELSE [parts |-> Assemble(
                  SignParts(<<header.out, parentHeader.out, metadata.out, content.out>>,
                            signkey),
                  header.out, parentHeader.out, metadata.out, content.out),
              err |-> ""]

----------------------------------------------------------------------------
(* MsgReceipt.SendResponse and the socket *)

\* socket.Send(frame, flags): one frame handed to the transport; more is the
\* zmq.SNDMORE flag
Send(frame, more) == <<[frame |-> frame, more |-> more]>>

\* socket.SendMultipart(parts, flags): the parts in order, every part but
\* the last with SNDMORE, the last with the flags given
SendMultipart(parts, more) ==
    [j \in 1..Len(parts) |-> [frame |-> parts[j], more |-> (j < Len(parts)) \/ more]]

\* what SendResponse hands to the socket before it encodes the message
SendRouting(identities) ==
    SendMultipart(identities, TRUE) \o Send(DelimiterFrame, TRUE)

\* faulty variant: the last frame too is sent with SNDMORE
SendPartsMore(msgParts) == SendMultipart(msgParts, TRUE)

\* socket.SendMultipart(msgParts, 0)
SendParts(msgParts) == SendMultipart(msgParts, FALSE)

\* fatal: log.Fatalln(err) ran, which ends the process
SendResponse(rcpt, msg) ==
    LET routing == SendRouting(rcpt.Identities)
        w == ToWireMsg(msg, rcpt.Sockets.Key)
    IN  IF w.err # ""
        THEN [wire |-> routing, fatal |-> TRUE]
        ELSE [wire |-> routing \o SendParts(w.parts), fatal |-> FALSE]

----------------------------------------------------------------------------
(* NewMsg *)

\* faulty variant: the parent's id is reused
NewMsgIDFromParent(parent, u) == parent.Header.MsgID

\* msg.Header.MsgID = u.String()
NewMsgID(parent, u) == UUIDString(u)

\* u is the value uuid.NewV4 returned
NewMsg(msgType, parent, u) ==
    [Header |-> [MsgID |-> NewMsgID(parent, u),
                 Username |-> parent.Header.Username,
                 Session |-> parent.Header.Session,
                 MsgType |-> msgType],
     ParentHeader |-> parent.Header,
     Metadata |-> NilMap,
     Content |-> NilValue]

----------------------------------------------------------------------------
(* The inputs the operations are run on *)

Keys == {"", "s3cr3t"}

Req1 ==
    [MsgID |-> UUIDString(1), Username |-> "alice", Session |-> "sess-1",
     MsgType |-> "execute_request"]

Req2 ==
    [MsgID |-> "req-1", Username |-> ReplacedUTF8, Session |-> "",
     MsgType |-> "status"]

XObject == [ty |-> MapType, js |-> "{\"x\":1}"]

\* messages a peer sends
PeerMsgs ==
    {[Header |-> Req1, ParentHeader |-> EmptyHeader, Metadata |-> EmptyMap,
      Content |-> c] : c \in {NilValue, XObject}}

\* contents and metadata a caller hands to ToWireMsg
Contents ==
    {NilValue, XObject,
     [ty |-> "float64", js |-> "1"],
     [ty |-> "int", js |-> "1"],
     [ty |-> "struct { X int }", js |-> "{\"x\":1}"],
     [ty |-> "chan int", js |-> ""]}

Metadatas ==
    {NilMap, EmptyMap,
     [ty |-> MapType, js |-> "{\"k\":\"v\"}"],
     [ty |-> "map[string]interface {} holding an int", js |-> "{\"n\":1}"],
     [ty |-> "map[string]interface {} holding a chan", js |-> ""]}

ComposedMsgs ==
    [Header : {Req1, EmptyHeader, [Req1 EXCEPT !.Username = InvalidUTF8]},
     ParentHeader : {EmptyHeader, Req2},
     Metadata : Metadatas,
     Content : Contents]

\* contents and metadata the caller of NewMsg fills in before SendResponse
ReplyContents == {NilValue, XObject, [ty |-> "chan int", js |-> ""]}

ReplyMetadatas ==
    {NilMap, EmptyMap, [ty |-> "map[string]interface {} holding a chan", js |-> ""]}

ReplyTypes == {"execute_reply", "status"}

\* n routing identities, all different
IdList(n) == [j \in 1..n |-> <<Lit("client-" \o ToString(j))>>]

IdLists == {IdList(n) : n \in 0..MaxIds}

\* frames put in the place of a frame of a message
AltFrames ==
    {EmptyFrame, <<Lit("{oops")>>, <<Lit("1")>>, <<Lit("null")>>,
     <<Lit(PartialHeaderText)>>, <<Lit(HeaderText(Req2))>>, <<Lit("{\"k\":\"v\"}")>>}

UpperCase(sig) ==
    [j \in 1..Len(sig) |->
        [sig[j] EXCEPT !.c = IF @ = "hi" THEN "HI" ELSE IF @ = "lo" THEN "LO" ELSE @]]

\* signature frames a peer may send for the four frames body
SigVariants(body, k) ==
    LET hex == HexEncode(Sum(IF k = "" THEN "other-key" ELSE k, Concat(body)))
    IN  {hex, EmptyFrame, UpperCase(hex), hex \o <<Lit("z")>>,
         hex \o HexEncode(<<ZeroByte>>), SubSeq(hex, 1, Len(hex) - 2),
         <<Lit("z")>>, [hex EXCEPT ![Len(hex)] = Lit("z")],
         HexEncode(Sum("other-key", Concat(body)))}

\* the five frames base with at most one frame changed, signed before or
\* after the change
Tampered(base, k) ==
    {base}
    \cup {[base EXCEPT ![j] = f] : j \in 2..5, f \in AltFrames}
    \cup {LET five == [base EXCEPT ![j] = f]
          IN  [five EXCEPT ![1] = SignParts(SubSeq(five, 2, 5), k)] :
              j \in 2..5, f \in AltFrames}
    \cup {[base EXCEPT ![1] = s] : s \in SigVariants(SubSeq(base, 2, 5), k)}

ExtraFrames == {<<>>, <<<<Lit("extra")>>, DelimiterFrame>>}

StaleFrame == <<Lit("{\"k\":\"v\"}")>>

Spares == {[j \in 1..n |-> f] : n \in 0..MaxSpare, f \in {EmptyFrame, StaleFrame}}

FullInputs(k) ==
    UNION {{[parts |-> ids \o <<DelimiterFrame>> \o five \o extra,
             spare |-> <<>>,
             signed |-> ToWireMsg(m, k).parts] :
                five \in Tampered(ToWireMsg(m, k).parts, k),
                ids \in IdLists, extra \in ExtraFrames} : m \in PeerMsgs}

TruncatedInputs(k) ==
    {[parts |-> ids \o <<DelimiterFrame>> \o SubSeq(ToWireMsg(m, k).parts, 1, n),
      spare |-> sp,
      signed |-> ToWireMsg(m, k).parts] :
         m \in PeerMsgs, ids \in IdLists, n \in 0..4, sp \in Spares}

NoDelimiterInputs(k) ==
    UNION {{[parts |-> ids \o rest, spare |-> sp, signed |-> ToWireMsg(m, k).parts] :
                ids \in IdLists, rest \in {<<>>, ToWireMsg(m, k).parts},
                sp \in Spares} : m \in PeerMsgs}

WireInputs(k) == FullInputs(k) \cup TruncatedInputs(k) \cup NoDelimiterInputs(k)

----------------------------------------------------------------------------
(* The state machine *)

NoResult == [status |-> "none", msg |-> ZeroMsg, identities |-> <<>>, idsNil |-> TRUE]

NoEncoding == [parts |-> <<>>, err |-> ""]

NoArgs == [msgType |-> "", parent |-> ZeroMsg]

\* type MsgReceipt struct
MsgReceipt(msg, identities, k) ==
    [Msg |-> msg, Identities |-> identities, Sockets |-> [Key |-> k]]

Init ==
    /\ key \in Keys
    /\ proc = "running"
    /\ op = "none"
    /\ inParts = <<>>
    /\ inSpare = <<>>
    /\ inSigned = <<>>
    /\ dec = NoResult
    /\ receipt = MsgReceipt(ZeroMsg, <<>>, key)
    /\ encSrc = ZeroMsg
    /\ enc = NoEncoding
    /\ reply = ZeroMsg
    /\ newArgs = NoArgs
    /\ sentMsg = ZeroMsg
    /\ wire = <<>>
    /\ drawn = <<>>

\* a multipart message arrives and is decoded; a successful decode forms
\* the receipt
Receive ==
    /\ proc = "running"
    /\ op = "none"
    /\ \E in \in WireInputs(key) :
        LET r == WireMsgToComposedMsg(in.parts, in.parts \o in.spare, key)
        IN  /\ inParts' = in.parts
            /\ inSpare' = in.spare
            /\ inSigned' = in.signed
            /\ dec' = r
            /\ proc' = IF r.status = "panic" THEN "panicked" ELSE "running"
            /\ receipt' = IF r.status = "ok"
                          THEN MsgReceipt(r.msg, r.identities, key)
                          ELSE receipt
    /\ op' = "WireMsgToComposedMsg"
    /\ UNCHANGED <<key, encSrc, enc, reply, newArgs, sentMsg, wire, drawn>>

\* a direct call of ToWireMsg
Encode ==
    /\ proc = "running"
    /\ op = "none"
    /\ \E m \in ComposedMsgs :
        /\ encSrc' = m
        /\ enc' = ToWireMsg(m, key)
    /\ op' = "ToWireMsg"
    /\ UNCHANGED <<key, proc, inParts, inSpare, inSigned, dec, receipt, reply,
                   newArgs, sentMsg, wire, drawn>>

\* the frames ToWireMsg produced, behind a delimiter, are decoded with the
\* same key
RoundTrip ==
    /\ proc = "running"
    /\ op = "ToWireMsg"
    /\ enc.err = ""
    /\ LET parts == <<DelimiterFrame>> \o enc.parts
           r == WireMsgToComposedMsg(parts, parts, key)
       IN  /\ inParts' = parts
           /\ inSigned' = enc.parts
           /\ dec' = r
           /\ proc' = IF r.status = "panic" THEN "panicked" ELSE "running"
    /\ op' = "RoundTrip"
    /\ UNCHANGED <<key, inSpare, receipt, encSrc, enc, reply, newArgs, sentMsg,
                   wire, drawn>>

HasReceipt ==
    \/ op = "WireMsgToComposedMsg" /\ dec.status = "ok"
    \/ op = "SendResponse"

\* uuid.NewV4 is the ideal generator: a value that is in use nowhere yet
Fresh(u) ==
    /\ \A j \in 1..Len(drawn) : drawn[j] # u
    /\ UUIDString(u) # receipt.Msg.Header.MsgID
    /\ UUIDString(u) # receipt.Msg.ParentHeader.MsgID

\* NewMsg(msgType, receipt.Msg) with uuid.NewV4 returning u
NewMsgReturns ==
    /\ proc = "running"
    /\ HasReceipt
    /\ Len(drawn) < MaxReplies
    /\ \E msgType \in ReplyTypes, u \in 1..NumUUIDs :
        /\ Fresh(u)
        /\ reply' = NewMsg(msgType, receipt.Msg, u)
        /\ newArgs' = [msgType |-> msgType, parent |-> receipt.Msg]
        /\ drawn' = Append(drawn, u)
    /\ op' = "NewMsg"
    /\ inParts' = <<>>
    /\ inSpare' = <<>>
    /\ inSigned' = <<>>
    /\ dec' = NoResult
    /\ sentMsg' = ZeroMsg
    /\ wire' = <<>>
    /\ UNCHANGED <<key, proc, receipt, encSrc, enc>>

\* NewMsg(msgType, receipt.Msg) with uuid.NewV4 returning an error:
\* log.Fatalln ends the process
NewMsgFatal ==
    /\ proc = "running"
    /\ HasReceipt
    /\ Len(drawn) < MaxReplies
    /\ \E msgType \in ReplyTypes :
        newArgs' = [msgType |-> msgType, parent |-> receipt.Msg]
    /\ proc' = "exited"
    /\ op' = "NewMsg"
    /\ reply' = ZeroMsg
    /\ inParts' = <<>>
    /\ inSpare' = <<>>
    /\ inSigned' = <<>>
    /\ dec' = NoResult
    /\ sentMsg' = ZeroMsg
    /\ wire' = <<>>
    /\ UNCHANGED <<key, receipt, encSrc, enc, drawn>>

\* the caller fills in content and metadata and calls
\* receipt.SendResponse(socket, msg)
Respond ==
    /\ proc = "running"
    /\ op = "NewMsg"
    /\ \E c \in ReplyContents, md \in ReplyMetadatas :
        LET msg == [reply EXCEPT !.Content = c, !.Metadata = md]
            r == SendResponse(receipt, msg)
        IN  /\ sentMsg' = msg
            /\ wire' = r.wire
            /\ proc' = IF r.fatal THEN "exited" ELSE "running"
    /\ op' = "SendResponse"
    /\ UNCHANGED <<key, inParts, inSpare, inSigned, dec, receipt, encSrc, enc,
                   reply, newArgs, drawn>>

Next ==
    \/ Receive
    \/ Encode
    \/ RoundTrip
    \/ NewMsgReturns
    \/ NewMsgFatal
    \/ Respond

Spec == Init /\ [][Next]_vars

----------------------------------------------------------------------------
(* Vocabulary of the properties *)

Decoded == op = "WireMsgToComposedMsg"

\* the position (from 1) of the first delimiter frame, 0 when there is none
FirstDelim(parts) ==
    IF \E j \in 1..Len(parts) : parts[j] = DelimiterFrame
    THEN CHOOSE j \in 1..Len(parts) :
            /\ parts[j] = DelimiterFrame
            /\ \A h \in 1..(j - 1) : parts[h] # DelimiterFrame
    ELSE 0

Malformed(parts) ==
    \/ FirstDelim(parts) = 0
    \/ Len(parts) - FirstDelim(parts) < 5

\* the five frames behind the delimiter of a well-framed sequence
FiveOf(parts) == SubSeq(parts, FirstDelim(parts) + 1, FirstDelim(parts) + 5)

\* the five frames were signed with the key k
SignedWith(five, k) == five[1] = HexEncode(Sum(k, Concat(SubSeq(five, 2, 5))))

\* the places where the five frames received differ from those signed
ChangedSlots == {j \in 1..5 : FiveOf(inParts)[j] # inSigned[j]}

\* the frame holds the hex digits, in either case, of the bytes of mac, and
\* at most one more character
HexOf(frame, mac) ==
    /\ Len(frame) \div 2 = Len(mac)
    /\ \A j \in 1..Len(mac) :
        /\ frame[2 * j - 1].c \in {"hi", "HI"}
        /\ frame[2 * j].c \in {"lo", "LO"}
        /\ frame[2 * j - 1].b = mac[j]
        /\ frame[2 * j].b = mac[j]

\* each of the four field frames deserializes into its field
FieldErrors(five) ==
    {f \in {"header", "parent_header", "metadata", "content"} :
        \/ f = "header" /\ JSONUnmarshalHeader(five[2], EmptyHeader).err
        \/ f = "parent_header" /\ JSONUnmarshalHeader(five[3], EmptyHeader).err
        \/ f = "metadata" /\ JSONUnmarshalMap(five[4], NilMap).err
        \/ f = "content" /\ JSONUnmarshalInterface(five[5], NilValue).err}

\* one signed frame sequence of key, one of its five frames changed since
TamperedOnce ==
    /\ Decoded
    /\ key # ""
    /\ ~Malformed(inParts)
    /\ SignedWith(inSigned, key)
    /\ Cardinality(ChangedSlots) = 1

RejectedEmpty ==
    /\ dec.status = "InvalidSignature"
    /\ dec.msg = ZeroMsg
    /\ dec.idsNil
    /\ dec.identities = <<>>

----------------------------------------------------------------------------
(* C1: every malformed frame sequence (no delimiter, or fewer than five     *)
(* frames behind it) is answered with MalformedFrames, never with a crash. *)
C1_MalformedFramesReported ==
    (Decoded /\ Malformed(inParts)) => dec.status = "MalformedFrames"

C3_RoundTripIdentity ==
    op = "RoundTrip" => (dec.status = "ok" /\ dec.msg = encSrc)

\* a Go value as the generic JSON types hold it
GenericValue(v) ==
    [ty |-> IF v.ty = "nil" THEN "nil"
            ELSE IF v.ty \in {"float64", "int"} THEN "float64"
            ELSE MapType,
     js |-> v.js]

GenericHeader(h) ==
    [MsgID |-> h.MsgID,
     Username |-> IF h.Username = InvalidUTF8 THEN ReplacedUTF8 ELSE h.Username,
     Session |-> h.Session,
     MsgType |-> h.MsgType]

\* the message a round trip is to return for m
JSONImage(m) ==
    [Header |-> GenericHeader(m.Header),
     ParentHeader |-> GenericHeader(m.ParentHeader),
     Metadata |-> IF m.Metadata = NilMap THEN EmptyMap
                  ELSE [ty |-> MapType, js |-> m.Metadata.js],
     Content |-> GenericValue(m.Content)]

(* C3 amended: for a message ToWireMsg encodes without error, decoding its *)
(* frames behind a delimiter with the same key succeeds and returns the    *)
(* message as JSON carries it: the headers with invalid UTF-8 replaced,    *)
(* metadata that was not supplied as the empty mapping, metadata and       *)
(* content as the same JSON value in the generic JSON types; a message     *)
(* already of that form is returned unchanged.                             *)
C3_RoundTripJSONImage ==
    op = "RoundTrip" =>
        /\ dec.status = "ok"
        /\ dec.msg = JSONImage(encSrc)
        /\ (encSrc = JSONImage(encSrc) => dec.msg = encSrc)

C3_Witness ==
    /\ op = "RoundTrip"
    /\ key # ""
    /\ encSrc.Metadata = NilMap
    /\ encSrc.Content = XObject
    /\ dec.status = "ok"
    /\ dec.msg.Metadata = EmptyMap

\* the frame sequence with another signature frame
WithSignature(parts, sig) == [parts EXCEPT ![FirstDelim(parts) + 1] = sig]

(* C4: with the empty key, a well-framed sequence with deserializable      *)
(* fields decodes successfully whatever its signature frame holds, and the *)
(* result is the one the same sequence gives with an empty signature frame *)
(* and with a hex signature frame.                                         *)
C4_UnsignedBypass ==
    (/\ Decoded
     /\ key = ""
     /\ ~Malformed(inParts)
     /\ FieldErrors(FiveOf(inParts)) = {})
        => /\ dec.status = "ok"
           /\ \A sig \in {EmptyFrame, HexEncode(Sum("other-key", <<>>))} :
                dec = WireMsgToComposedMsg(WithSignature(inParts, sig),
                                           WithSignature(inParts, sig) \o inSpare,
                                           key)

C4_Witness ==
    /\ Decoded
    /\ key = ""
    /\ ~Malformed(inParts)
    /\ FieldErrors(FiveOf(inParts)) = {}
    /\ Len(FiveOf(inParts)[1]) % 2 = 1
    /\ dec.status = "ok"
    /\ dec.msg.Header = Req1

(* C5: a successful decode returns as identities exactly the frames before *)
(* the first delimiter frame, in their order; the delimiter and the five   *)
(* frames behind it are not among them, and further frames are tolerated.  *)
C5_IdentitiesPreserved ==
    (Decoded /\ dec.status = "ok") =>
        /\ ~dec.idsNil
        /\ dec.identities = SubSeq(inParts, 1, FirstDelim(inParts) - 1)
        /\ \A j \in 1..Len(dec.identities) : dec.identities[j] # DelimiterFrame
        /\ Len(dec.identities) + 6 <= Len(inParts)

C5_Witness ==
    /\ Decoded
    /\ dec.status = "ok"
    /\ Len(dec.identities) >= 2
    /\ dec.identities[1] # dec.identities[2]
    /\ Len(inParts) > Len(dec.identities) + 6

(* C6: when one of the four field frames of a well-framed sequence that    *)
(* passes verification fails to deserialize, the decode reports DecodeError *)
(* and returns no message.                                                 *)
C6_DecodeErrorReported ==
    (/\ Decoded
     /\ ~Malformed(inParts)
     /\ key # "" => SignedWith(FiveOf(inParts), key)
     /\ FieldErrors(FiveOf(inParts)) # {})
        => (dec.status = "DecodeError" /\ dec.msg = ZeroMsg)

(* C7: no operation ends the process: after NewMsg and after SendResponse  *)
(* the caller is still running.                                            *)
C7_NeverTerminates ==
    op \in {"NewMsg", "SendResponse"} => proc = "running"

(* C8: the message NewMsg returns has the parent's header as parent        *)
(* header, the parent's session and username, the given type, an id that   *)
(* differs from the parent's and from every id generated earlier, and no   *)
(* metadata or content.                                                    *)
C8_Correlation ==
    (op = "NewMsg" /\ proc = "running") =>
        /\ reply.ParentHeader = newArgs.parent.Header
        /\ reply.Header.Session = newArgs.parent.Header.Session
        /\ reply.Header.Username = newArgs.parent.Header.Username
        /\ reply.Header.MsgType = newArgs.msgType
        /\ reply.Header.MsgID = UUIDString(drawn[Len(drawn)])
        /\ reply.Header.MsgID # newArgs.parent.Header.MsgID
        /\ \A j \in 1..(Len(drawn) - 1) : reply.Header.MsgID # UUIDString(drawn[j])
        /\ reply.Metadata = NilMap
        /\ reply.Content = NilValue

C8_Witness ==
    /\ op = "NewMsg"
    /\ proc = "running"
    /\ Len(drawn) = 2
    /\ newArgs.parent.Header = Req1
    /\ newArgs.msgType = "execute_reply"

(* C9: for an encodable message SendResponse hands to the socket the       *)
(* receipt's identities, one delimiter frame, then signature, header,      *)
(* parent header, metadata and content, the signature frame empty exactly  *)
(* when the key is empty, every frame but the last flagged SNDMORE.        *)
C9_FramesSent ==
    (op = "SendResponse" /\ proc = "running") =>
        LET n == Len(receipt.Identities)
        IN  /\ Len(wire) = n + 6
            /\ \A j \in 1..n : wire[j].frame = receipt.Identities[j]
            /\ wire[n + 1].frame = DelimiterFrame
            /\ wire[n + 3].frame = <<Lit(HeaderText(sentMsg.Header))>>
            /\ wire[n + 4].frame = <<Lit(HeaderText(sentMsg.ParentHeader))>>
            /\ wire[n + 5].frame =
                 <<Lit(IF sentMsg.Metadata = NilMap THEN "{}" ELSE sentMsg.Metadata.js)>>
            /\ wire[n + 6].frame = <<Lit(sentMsg.Content.js)>>
            /\ (key = "" <=> wire[n + 2].frame = EmptyFrame)
            /\ key # "" =>
                 wire[n + 2].frame =
                    HexEncode(Sum(key, wire[n + 3].frame \o wire[n + 4].frame
                                        \o wire[n + 5].frame \o wire[n + 6].frame))
            /\ \A j \in 1..(n + 5) : wire[j].more
            /\ ~wire[n + 6].more

C9_Witness ==
    /\ op = "SendResponse"
    /\ proc = "running"
    /\ Len(receipt.Identities) >= 2
    /\ key # ""
    /\ sentMsg.Content = XObject
    /\ Len(wire) = Len(receipt.Identities) + 6

(* C10: when encoding the outgoing message fails, the socket has received  *)
(* no frame of that reply.                                                 *)
C10_NothingSentOnEncodeFailure ==
    (op = "SendResponse" /\ ToWireMsg(sentMsg, key).err # "") => wire = <<>>

====
